---- MODULE Spec2Model ----
(***************************************************************************)
(* Model of package sql (src/sql.go): interface wrappers db, stmt and tx   *)
(* around the database/sql handles *sql.DB, *sql.Stmt and *sql.Tx.         *)
(*                                                                         *)
(* The wrappers are modelled from src/sql.go.  The handles they embed      *)
(* belong to the Go standard library (database/sql), which is not part of  *)
(* the package; their behaviour is the environment of the model and is     *)
(* written down in the Native* operators.  The Conn interface is declared  *)
(* in src/sql.go but no type of the package implements it; the conn        *)
(* wrapper below follows the package's specification.                      *)
(***************************************************************************)
EXTENDS Integers, Sequences, FiniteSets, TLC

VARIABLES heap, wrappers, canceled, ghost, last

vars == <<heap, wrappers, canceled, ghost, last>>

\* ---------------------------------------------------------------- bounds
MaxHandles == 3

\* ---------------------------------------------------------------- values
Nil == "nil"
NoCtx == "none"
NoQuery == ""
NoArgs == <<>>

Ctxs == {"bg", "c1"}
Cancellable == {"c1"}
\* a query text with its argument list
Inputs == {[query |-> "SELECT 1", args |-> <<>>],
           [query |-> "UPDATE t", args |-> <<5>>]}
Queries == {i.query : i \in Inputs}
ArgLists == {i.args : i \in Inputs}
DriverNames == {"fake", "nope"}
Registered == {"fake"}
Connectors == {"connector", "nilConnector"}
TxOpts == {<<>>, <<"ReadOnly">>}
Fates == {"ok", "fail"}
EndFates == {"ok", "fail", "badconn"}

Val(t, h, x) == [t |-> t, h |-> h, x |-> x]
NilVal == Val("nil", 0, "")
Ret(v, e) == [val |-> v, err |-> e]
Call(op, h, ctx, query, args) ==
    [op |-> op, h |-> h, ctx |-> ctx, query |-> query, args |-> args]

\* ------------------------------------------------- native handles (env)
Obj(kind, parent, ctx) ==
    [kind |-> kind, closed |-> FALSE, parent |-> parent, ctx |-> ctx]

DriverErr(fate) == IF fate = "badconn" THEN "ErrBadConn" ELSE "ErrDriver"

NOut(v, e, hp) == [ret |-> Ret(v, e), heap |-> hp]
NFail(e, env) == NOut(NilVal, e, env.heap)
NAlloc(o, env) ==
    NOut(Val("handle", Len(env.heap) + 1, ""), Nil, Append(env.heap, o))

\* closePrepared: every statement prepared on transaction t is closed
ClosePrepared(hp, t) ==
    [i \in 1..Len(hp) |->
        IF hp[i].kind = "Stmt" /\ hp[i].parent = t
        THEN [hp[i] EXCEPT !.closed = TRUE] ELSE hp[i]]

\* a finished transaction: done is set; its statements are closed unless
\* the driver reported a bad connection
FinishTx(hp, t, e) ==
    LET h1 == [hp EXCEPT ![t].closed = TRUE]
    IN IF e = "ErrBadConn" THEN h1 ELSE ClosePrepared(h1, t)

\* the error of a call that needs a connection, or Nil when it gets one
ConnErr(c, env) ==
    LET o == env.heap[c.h]
    IN CASE o.kind = "DB" ->
              IF c.ctx \in env.canceled THEN "Canceled" ELSE Nil
         [] o.kind = "Conn" ->
              IF o.closed THEN "ErrConnDone"
              ELSE IF c.ctx \in env.canceled THEN "Canceled" ELSE Nil
         [] o.kind = "Tx" ->
              IF c.ctx \in env.canceled THEN "Canceled"
              ELSE IF o.closed THEN "ErrTxDone" ELSE Nil
         [] o.kind = "Stmt" ->
              IF o.closed THEN "ErrStmtClosed"
              ELSE IF c.ctx \in env.canceled THEN "Canceled"
              ELSE IF o.parent # 0 /\ env.heap[o.parent].closed THEN "ErrTxDone"
              ELSE Nil

\* the error a connection-bound call ends with
RunErr(c, env) ==
    IF ConnErr(c, env) # Nil THEN ConnErr(c, env)
    ELSE IF env.fate = "ok" THEN Nil ELSE DriverErr(env.fate)

NativeOpen(c, env) ==
    IF c.query \notin Registered THEN NFail("ErrUnknownDriver", env)
    ELSE IF env.fate # "ok" THEN NFail(DriverErr(env.fate), env)
    ELSE NAlloc(Obj("DB", 0, NoCtx), env)

NativeOpenDB(c, env) == NAlloc(Obj("DB", 0, NoCtx), env)

NativePing(c, env) == NFail(RunErr(c, env), env)

NativePrepare(c, env) ==
    IF RunErr(c, env) # Nil THEN NFail(RunErr(c, env), env)
    ELSE NAlloc(Obj("Stmt", IF env.heap[c.h].kind = "Tx" THEN c.h ELSE 0, NoCtx), env)

NativeBeginTx(c, env) ==
    IF RunErr(c, env) # Nil THEN NFail(RunErr(c, env), env)
    ELSE NAlloc(Obj("Tx", 0, c.ctx), env)

NativeConn(c, env) ==
    IF RunErr(c, env) # Nil THEN NFail(RunErr(c, env), env)
    ELSE NAlloc(Obj("Conn", 0, NoCtx), env)

NativeExec(c, env) ==
    IF RunErr(c, env) # Nil THEN NFail(RunErr(c, env), env)
    ELSE NOut(Val("Result", c.h, c.query), Nil, env.heap)

NativeQuery(c, env) ==
    IF RunErr(c, env) # Nil THEN NFail(RunErr(c, env), env)
    ELSE NOut(Val("Rows", c.h, c.query), Nil, env.heap)

\* QueryRowContext has no error result: the query's error rides in the Row
NativeQueryRow(c, env) == NOut(Val("Row", c.h, RunErr(c, env)), Nil, env.heap)

\* (*Row).Scan reports the deferred error of the query
Scan(row) == row.x

NativeCommit(c, env) ==
    LET o == env.heap[c.h]
    IN IF o.ctx \in env.canceled
       THEN NFail(IF o.closed THEN "ErrTxDone" ELSE "Canceled", env)
       ELSE IF o.closed THEN NFail("ErrTxDone", env)
       ELSE LET e == IF env.fate = "ok" THEN Nil ELSE DriverErr(env.fate)
            IN NOut(NilVal, e, FinishTx(env.heap, c.h, e))

NativeRollback(c, env) ==
    LET o == env.heap[c.h]
    IN IF o.closed THEN NFail("ErrTxDone", env)
       ELSE LET e == IF env.fate = "ok" THEN Nil ELSE DriverErr(env.fate)
            IN NOut(NilVal, e, FinishTx(env.heap, c.h, e))

NativeClose(c, env) ==
    LET o == env.heap[c.h]
    IN IF o.closed
       THEN NFail(IF o.kind = "Conn" THEN "ErrConnDone" ELSE Nil, env)
       ELSE NOut(NilVal,
                 IF env.fate = "ok" THEN Nil ELSE DriverErr(env.fate),
                 [env.heap EXCEPT ![c.h].closed = TRUE])

NativeDo(c, env) ==
    CASE c.op = "Open" -> NativeOpen(c, env)
      [] c.op = "OpenDB" -> NativeOpenDB(c, env)
      [] c.op = "PingContext" -> NativePing(c, env)
      [] c.op = "PrepareContext" -> NativePrepare(c, env)
      [] c.op = "BeginTx" -> NativeBeginTx(c, env)
      [] c.op = "Conn" -> NativeConn(c, env)
      [] c.op = "ExecContext" -> NativeExec(c, env)
      [] c.op = "QueryContext" -> NativeQuery(c, env)
      [] c.op = "QueryRowContext" -> NativeQueryRow(c, env)
      [] c.op = "Commit" -> NativeCommit(c, env)
      [] c.op = "Rollback" -> NativeRollback(c, env)
      [] c.op = "Close" -> NativeClose(c, env)

\* ------------------------------------------------- wrappers (src/sql.go)
db(h) == Val("db", h, "")
stmt(h) == Val("stmt", h, "")
tx(h) == Val("tx", h, "")
conn(h) == Val("conn", h, "")

\* the outcome of one method invocation: the native calls it made, what
\* they returned, what the method returns and the native state it leaves
Outcome(calls, nats, ret, hp) ==
    [calls |-> calls, nats |-> nats, ret |-> ret, heap |-> hp]

\* a body of the form `return native(...)`
Forward(c, env) ==
    LET n == NativeDo(c, env)
    IN Outcome(<<c>>, <<n.ret>>, n.ret, n.heap)

Open(driverName, dataSourceName, env) ==
    LET c == Call("Open", 0, NoCtx, driverName, <<dataSourceName>>)
        n == NativeDo(c, env)
    IN Outcome(<<c>>, <<n.ret>>,
               IF n.ret.err # Nil THEN Ret(NilVal, n.ret.err)
               ELSE Ret(db(n.ret.val.h), Nil),
               n.heap)

\* faulty variant: a nil connector is refused
OpenDB_refusing(c, env) ==
    LET k == Call("OpenDB", 0, NoCtx, c, NoArgs)
        n == NativeDo(k, env)
    IN IF c = "nilConnector"
       THEN Outcome(<<>>, <<>>, Ret(NilVal, "ErrNilConnector"), env.heap)
       ELSE Outcome(<<k>>, <<n.ret>>, Ret(db(n.ret.val.h), Nil), n.heap)

OpenDB(c, env) ==
    LET k == Call("OpenDB", 0, NoCtx, c, NoArgs)
        n == NativeDo(k, env)
    IN Outcome(<<k>>, <<n.ret>>, Ret(db(n.ret.val.h), Nil), n.heap)

\* faulty variant: the caller's context is replaced by the background context
db_Ping_background(d, ctx, env) ==
    Forward(Call("PingContext", d.h, "bg", NoQuery, NoArgs), env)

db_Ping(d, ctx, env) ==
    Forward(Call("PingContext", d.h, ctx, NoQuery, NoArgs), env)

db_Prepare(d, ctx, query, env) ==
    LET c == Call("PrepareContext", d.h, ctx, query, NoArgs)
        n == NativeDo(c, env)
    IN Outcome(<<c>>, <<n.ret>>,
               IF n.ret.err # Nil THEN Ret(NilVal, n.ret.err)
               ELSE Ret(stmt(n.ret.val.h), Nil),
               n.heap)

\* faulty variant: a failed native call is tried once more
db_Exec_retry(d, ctx, query, args, env) ==
    LET c == Call("ExecContext", d.h, ctx, query, args)
        n == NativeDo(c, env)
        m == NativeDo(c, [env EXCEPT !.heap = n.heap])
    IN IF n.ret.err = Nil THEN Outcome(<<c>>, <<n.ret>>, n.ret, n.heap)
       ELSE Outcome(<<c, c>>, <<n.ret, m.ret>>, m.ret, m.heap)

db_Exec(d, ctx, query, args, env) ==
    Forward(Call("ExecContext", d.h, ctx, query, args), env)

\* faulty variant: the native error is wrapped
db_Query_wrapping(d, ctx, query, args, env) ==
    LET c == Call("QueryContext", d.h, ctx, query, args)
        n == NativeDo(c, env)
    IN Outcome(<<c>>, <<n.ret>>,
               IF n.ret.err # Nil THEN Ret(n.ret.val, "ErrWrapped") ELSE n.ret,
               n.heap)

db_Query(d, ctx, query, args, env) ==
    Forward(Call("QueryContext", d.h, ctx, query, args), env)

\* faulty variant: a failed query yields no Row
db_QueryRow_nil(d, ctx, query, args, env) ==
    LET c == Call("QueryRowContext", d.h, ctx, query, args)
        n == NativeDo(c, env)
    IN Outcome(<<c>>, <<n.ret>>,
               IF Scan(n.ret.val) # Nil THEN Ret(NilVal, Nil) ELSE n.ret,
               n.heap)

db_QueryRow(d, ctx, query, args, env) ==
    Forward(Call("QueryRowContext", d.h, ctx, query, args), env)

\* faulty variant: the error check is missing, the result is wrapped in any case
db_BeginTx_unchecked(d, ctx, opts, env) ==
    LET c == Call("BeginTx", d.h, ctx, NoQuery, opts)
        n == NativeDo(c, env)
    IN Outcome(<<c>>, <<n.ret>>, Ret(tx(n.ret.val.h), n.ret.err), n.heap)

db_BeginTx(d, ctx, opts, env) ==
    LET c == Call("BeginTx", d.h, ctx, NoQuery, opts)
        n == NativeDo(c, env)
    IN Outcome(<<c>>, <<n.ret>>,
               IF n.ret.err # Nil THEN Ret(NilVal, n.ret.err)
               ELSE Ret(tx(n.ret.val.h), Nil),
               n.heap)

\* faulty variant: a call the native statement refuses is answered with success
stmt_Exec_silent(d, ctx, args, env) ==
    LET c == Call("ExecContext", d.h, ctx, NoQuery, args)
        n == NativeDo(c, env)
    IN Outcome(<<c>>, <<n.ret>>,
               IF n.ret.err = "ErrStmtClosed"
               THEN Ret(Val("Result", d.h, NoQuery), Nil) ELSE n.ret,
               n.heap)

stmt_Exec(d, ctx, args, env) ==
    Forward(Call("ExecContext", d.h, ctx, NoQuery, args), env)

stmt_Query(d, ctx, args, env) ==
    Forward(Call("QueryContext", d.h, ctx, NoQuery, args), env)

stmt_QueryRow(d, ctx, args, env) ==
    Forward(Call("QueryRowContext", d.h, ctx, NoQuery, args), env)

\* faulty variant: the wrapper refuses a second Close itself
stmt_Close_guarded(d, env) ==
    LET c == Call("Close", d.h, NoCtx, NoQuery, NoArgs)
        n == NativeDo(c, env)
    IN IF env.heap[d.h].closed
       THEN Outcome(<<>>, <<>>, Ret(NilVal, "ErrStmtClosed"), env.heap)
       ELSE Outcome(<<c>>, <<n.ret>>, n.ret, n.heap)

\* Close is promoted from the embedded *sql.Stmt
stmt_Close(d, env) ==
    Forward(Call("Close", d.h, NoCtx, NoQuery, NoArgs), env)

\* faulty variant: Commit is made idempotent, a finished transaction is a success
tx_Commit_idempotent(t, env) ==
    LET c == Call("Commit", t.h, NoCtx, NoQuery, NoArgs)
        n == NativeDo(c, env)
    IN Outcome(<<c>>, <<n.ret>>,
               IF n.ret.err = "ErrTxDone" THEN Ret(NilVal, Nil) ELSE n.ret,
               n.heap)

\* Commit and Rollback are promoted from the embedded *sql.Tx
tx_Commit(t, env) ==
    Forward(Call("Commit", t.h, NoCtx, NoQuery, NoArgs), env)

tx_Rollback(t, env) ==
    Forward(Call("Rollback", t.h, NoCtx, NoQuery, NoArgs), env)

\* faulty variant: the statement wrapper is built around the receiver's handle
tx_Prepare_receiver(t, ctx, query, env) ==
    LET c == Call("PrepareContext", t.h, ctx, query, NoArgs)
        n == NativeDo(c, env)
    IN Outcome(<<c>>, <<n.ret>>,
               IF n.ret.err # Nil THEN Ret(NilVal, n.ret.err)
               ELSE Ret(stmt(t.h), Nil),
               n.heap)

tx_Prepare(t, ctx, query, env) ==
    LET c == Call("PrepareContext", t.h, ctx, query, NoArgs)
        n == NativeDo(c, env)
    IN Outcome(<<c>>, <<n.ret>>,
               IF n.ret.err # Nil THEN Ret(NilVal, n.ret.err)
               ELSE Ret(stmt(n.ret.val.h), Nil),
               n.heap)

tx_Exec(t, ctx, query, args, env) ==
    Forward(Call("ExecContext", t.h, ctx, query, args), env)

tx_Query(t, ctx, query, args, env) ==
    Forward(Call("QueryContext", t.h, ctx, query, args), env)

tx_QueryRow(t, ctx, query, args, env) ==
    Forward(Call("QueryRowContext", t.h, ctx, query, args), env)

\* the Conn wrapper (specified, not implemented in src/sql.go)
db_Conn(d, ctx, env) ==
    LET c == Call("Conn", d.h, ctx, NoQuery, NoArgs)
        n == NativeDo(c, env)
    IN Outcome(<<c>>, <<n.ret>>,
               IF n.ret.err # Nil THEN Ret(NilVal, n.ret.err)
               ELSE Ret(conn(n.ret.val.h), Nil),
               n.heap)

conn_Close(d, env) ==
    Forward(Call("Close", d.h, NoCtx, NoQuery, NoArgs), env)

\* ---------------------------------------------------------------- state
Producers == {"Open", "OpenDB", "db.Prepare", "db.BeginTx", "tx.Prepare", "db.Conn"}
Finishers == {"tx.Commit", "tx.Rollback"}

Env(fate) == [heap |-> heap, canceled |-> canceled, fate |-> fate]

Of(type) == {w \in 1..Len(wrappers) : wrappers[w].t = type}

\* what held when the method was entered: the context was canceled
\* (canceled), the receiver's handle was closed or done (closed), a Commit
\* or Rollback of the receiver had succeeded (fin), a Commit or Rollback
\* of the wrapper whose method made the receiver had succeeded (byfin)
Pre(w, ctx) ==
    [canceled |-> ctx \in canceled,
     closed |-> IF w = 0 THEN FALSE ELSE heap[wrappers[w].h].closed,
     fin |-> IF w = 0 THEN FALSE ELSE ghost[w].fin,
     byfin |-> IF w = 0 \/ ghost[w].by = 0 THEN FALSE ELSE ghost[ghost[w].by].fin]

\* no invocation is in progress
Idle ==
    [w |-> 0, op |-> "idle", ctx |-> NoCtx, query |-> NoQuery, args |-> NoArgs,
     pre |-> [canceled |-> FALSE, closed |-> FALSE, fin |-> FALSE, byfin |-> FALSE],
     calls |-> <<>>, nats |-> <<>>, ret |-> Ret(NilVal, Nil)]

Init ==
    /\ heap = <<>>
    /\ wrappers = <<>>
    /\ canceled = {}
    /\ ghost = <<>>
    /\ last = Idle

\* one invocation of a wrapper method with outcome m
Step(w, op, ctx, query, args, m) ==
    LET made == op \in Producers /\ m.ret.val # NilVal
    IN /\ last = Idle
       /\ Len(m.heap) <= MaxHandles
       /\ heap' = m.heap
       /\ wrappers' = IF made THEN Append(wrappers, m.ret.val) ELSE wrappers
       /\ ghost' = IF made THEN Append(ghost, [by |-> w, fin |-> FALSE])
                   ELSE IF op \in Finishers /\ m.ret.err = Nil
                        THEN [ghost EXCEPT ![w].fin = TRUE]
                        ELSE ghost
       /\ last' = [w |-> w, op |-> op, ctx |-> ctx, query |-> query,
                   args |-> args, pre |-> Pre(w, ctx),
                   calls |-> m.calls, nats |-> m.nats, ret |-> m.ret]
       /\ UNCHANGED canceled

DoOpen ==
    \E dn \in DriverNames, fate \in Fates :
        Step(0, "Open", NoCtx, dn, <<"dsn">>, Open(dn, "dsn", Env(fate)))

DoOpenDB ==
    \E c \in Connectors :
        Step(0, "OpenDB", NoCtx, c, NoArgs, OpenDB(c, Env("ok")))

DBPing ==
    \E w \in Of("db"), ctx \in Ctxs, fate \in Fates :
        Step(w, "db.Ping", ctx, NoQuery, NoArgs,
             db_Ping(wrappers[w], ctx, Env(fate)))

DBPrepare ==
    \E w \in Of("db"), ctx \in Ctxs, q \in Queries, fate \in Fates :
        Step(w, "db.Prepare", ctx, q, NoArgs,
             db_Prepare(wrappers[w], ctx, q, Env(fate)))

DBExec ==
    \E w \in Of("db"), ctx \in Ctxs, i \in Inputs, fate \in Fates :
        Step(w, "db.Exec", ctx, i.query, i.args,
             db_Exec(wrappers[w], ctx, i.query, i.args, Env(fate)))

DBQuery ==
    \E w \in Of("db"), ctx \in Ctxs, i \in Inputs, fate \in Fates :
        Step(w, "db.Query", ctx, i.query, i.args,
             db_Query(wrappers[w], ctx, i.query, i.args, Env(fate)))

DBQueryRow ==
    \E w \in Of("db"), ctx \in Ctxs, i \in Inputs, fate \in Fates :
        Step(w, "db.QueryRow", ctx, i.query, i.args,
             db_QueryRow(wrappers[w], ctx, i.query, i.args, Env(fate)))

DBBeginTx ==
    \E w \in Of("db"), ctx \in Ctxs, opts \in TxOpts, fate \in Fates :
        Step(w, "db.BeginTx", ctx, NoQuery, opts,
             db_BeginTx(wrappers[w], ctx, opts, Env(fate)))

StmtExec ==
    \E w \in Of("stmt"), ctx \in Ctxs, a \in ArgLists, fate \in Fates :
        Step(w, "stmt.Exec", ctx, NoQuery, a,
             stmt_Exec(wrappers[w], ctx, a, Env(fate)))

StmtQuery ==
    \E w \in Of("stmt"), ctx \in Ctxs, a \in ArgLists, fate \in Fates :
        Step(w, "stmt.Query", ctx, NoQuery, a,
             stmt_Query(wrappers[w], ctx, a, Env(fate)))

StmtQueryRow ==
    \E w \in Of("stmt"), ctx \in Ctxs, a \in ArgLists, fate \in Fates :
        Step(w, "stmt.QueryRow", ctx, NoQuery, a,
             stmt_QueryRow(wrappers[w], ctx, a, Env(fate)))

StmtClose ==
    \E w \in Of("stmt"), fate \in Fates :
        Step(w, "stmt.Close", NoCtx, NoQuery, NoArgs,
             stmt_Close(wrappers[w], Env(fate)))

TxCommit ==
    \E w \in Of("tx"), fate \in EndFates :
        Step(w, "tx.Commit", NoCtx, NoQuery, NoArgs,
             tx_Commit(wrappers[w], Env(fate)))

TxRollback ==
    \E w \in Of("tx"), fate \in EndFates :
        Step(w, "tx.Rollback", NoCtx, NoQuery, NoArgs,
             tx_Rollback(wrappers[w], Env(fate)))

TxPrepare ==
    \E w \in Of("tx"), ctx \in Ctxs, q \in Queries, fate \in Fates :
        Step(w, "tx.Prepare", ctx, q, NoArgs,
             tx_Prepare(wrappers[w], ctx, q, Env(fate)))

TxExec ==
    \E w \in Of("tx"), ctx \in Ctxs, i \in Inputs, fate \in Fates :
        Step(w, "tx.Exec", ctx, i.query, i.args,
             tx_Exec(wrappers[w], ctx, i.query, i.args, Env(fate)))

TxQuery ==
    \E w \in Of("tx"), ctx \in Ctxs, i \in Inputs, fate \in Fates :
        Step(w, "tx.Query", ctx, i.query, i.args,
             tx_Query(wrappers[w], ctx, i.query, i.args, Env(fate)))

TxQueryRow ==
    \E w \in Of("tx"), ctx \in Ctxs, i \in Inputs, fate \in Fates :
        Step(w, "tx.QueryRow", ctx, i.query, i.args,
             tx_QueryRow(wrappers[w], ctx, i.query, i.args, Env(fate)))

DBConn ==
    \E w \in Of("db"), ctx \in Ctxs, fate \in Fates :
        Step(w, "db.Conn", ctx, NoQuery, NoArgs,
             db_Conn(wrappers[w], ctx, Env(fate)))

ConnClose ==
    \E w \in Of("conn"), fate \in Fates :
        Step(w, "conn.Close", NoCtx, NoQuery, NoArgs,
             conn_Close(wrappers[w], Env(fate)))

\* the caller has taken the result of the invocation
Return ==
    /\ last # Idle
    /\ last' = Idle
    /\ UNCHANGED <<heap, wrappers, canceled, ghost>>

\* the caller cancels a context
Cancel ==
    \E c \in Cancellable \ canceled :
        /\ canceled' = canceled \cup {c}
        /\ UNCHANGED <<heap, wrappers, ghost, last>>

\* database/sql rolls a transaction back once its context is canceled
AwaitDone ==
    \E t \in 1..Len(heap) :
        /\ heap[t].kind = "Tx"
        /\ ~heap[t].closed
        /\ heap[t].ctx \in canceled
        /\ heap' = FinishTx(heap, t, Nil)
        /\ UNCHANGED <<wrappers, canceled, ghost, last>>

Next ==
    \/ DoOpen \/ DoOpenDB
    \/ DBPing \/ DBPrepare \/ DBExec \/ DBQuery \/ DBQueryRow \/ DBBeginTx
    \/ StmtExec \/ StmtQuery \/ StmtQueryRow \/ StmtClose
    \/ TxCommit \/ TxRollback \/ TxPrepare \/ TxExec \/ TxQuery \/ TxQueryRow
    \/ DBConn \/ ConnClose
    \/ Return \/ Cancel \/ AwaitDone

Spec == Init /\ [][Next]_vars

\* -------------------------------------------------------------- claims
\* the database/sql operation a wrapper method stands for
Corresponding(op) ==
    CASE op \in {"db.Ping"} -> "PingContext"
      [] op \in {"db.Prepare", "tx.Prepare"} -> "PrepareContext"
      [] op \in {"db.BeginTx"} -> "BeginTx"
      [] op \in {"db.Exec", "stmt.Exec", "tx.Exec"} -> "ExecContext"
      [] op \in {"db.Query", "stmt.Query", "tx.Query"} -> "QueryContext"
      [] op \in {"db.QueryRow", "stmt.QueryRow", "tx.QueryRow"} -> "QueryRowContext"
      [] op \in {"stmt.Close"} -> "Close"
      [] op \in {"tx.Commit"} -> "Commit"
      [] op \in {"tx.Rollback"} -> "Rollback"

\* the wrapper methods of src/sql.go
WrapperOps ==
    {"db.Ping", "db.Prepare", "db.BeginTx", "db.Exec", "db.Query", "db.QueryRow",
     "stmt.Exec", "stmt.Query", "stmt.QueryRow", "stmt.Close",
     "tx.Commit", "tx.Rollback", "tx.Prepare", "tx.Exec", "tx.Query", "tx.QueryRow"}
WrapperMakers == {"db.Prepare", "db.BeginTx", "tx.Prepare"}
WrapperType(op) == IF op = "db.BeginTx" THEN "tx" ELSE "stmt"

\* C1: every wrapper method returns exactly what the native call on its
\* handle returned: the same result (for Prepare and BeginTx, a wrapper
\* around the returned handle) or the same error, unwrapped and unswallowed.
C1_Forwarding ==
    last.op \in WrapperOps =>
        /\ Len(last.nats) = 1
        /\ last.ret.err = last.nats[1].err
        /\ IF last.op \in WrapperMakers
           THEN last.ret.err = Nil =>
                    last.ret.val = Val(WrapperType(last.op), last.nats[1].val.h, "")
           ELSE last.ret.val = last.nats[1].val

C1_Witness ==
    /\ last.op = "db.Query"
    /\ last.nats = <<Ret(NilVal, "ErrDriver")>>
    /\ last.ret = Ret(NilVal, "ErrDriver")

\* C2: once a Commit or Rollback of a Tx wrapper has succeeded, the native
\* transaction stays finished, and every later Commit or Rollback of that
\* wrapper returns ErrTxDone (so at most one of them ever succeeds).
C2_TerminalAbsorbing ==
    /\ \A w \in Of("tx") : ghost[w].fin => heap[wrappers[w].h].closed
    /\ (last.op \in Finishers /\ last.pre.fin) => last.ret.err = "ErrTxDone"

C2_Witness ==
    /\ last.op = "tx.Commit"
    /\ last.pre.fin
    /\ last.ret.err = "ErrTxDone"

\* the methods that go through a finished transaction
TxUses == {"tx.Prepare", "tx.Exec", "tx.Query"}
StmtUses == {"stmt.Exec", "stmt.Query"}
OneCall ==
    /\ Len(last.calls) = 1
    /\ Len(last.nats) = 1
    /\ last.calls[1].h = wrappers[last.w].h
    /\ last.calls[1].op = Corresponding(last.op)

\* C3 as stated: after a Commit or Rollback of a Tx wrapper has succeeded,
\* every Prepare/Exec/Query on it and every Exec/Query on a Stmt wrapper
\* made by its Prepare is forwarded and returns the transaction-state
\* error ErrTxDone.
C3_AsStated ==
    /\ (last.op \in TxUses /\ last.pre.fin) =>
           (OneCall /\ last.ret.err = "ErrTxDone")
    /\ (last.op \in StmtUses /\ last.pre.byfin) =>
           (OneCall /\ last.ret.err = "ErrTxDone")

\* C3 amended: such a call is forwarded and returns the native error,
\* never a success: on the Tx wrapper ErrTxDone, or the context's error
\* when the context passed is already canceled; on a Stmt wrapper of the
\* transaction the native statement-closed error.
C3_PostTerminal ==
    /\ (last.op \in TxUses /\ last.pre.fin) =>
           /\ OneCall
           /\ last.ret = last.nats[1]
           /\ last.ret.err = IF last.pre.canceled THEN "Canceled" ELSE "ErrTxDone"
    /\ (last.op \in StmtUses /\ last.pre.byfin) =>
           /\ OneCall
           /\ last.ret = last.nats[1]
           /\ last.ret.err = "ErrStmtClosed"

C3_Witness ==
    /\ last.op = "stmt.Exec"
    /\ last.pre.byfin
    /\ last.ret.err = "ErrStmtClosed"
    /\ \E w \in Of("tx") :
           ghost[last.w].by = w /\ ghost[w].fin /\ heap[wrappers[w].h].closed

\* C4: Open, db.Prepare, db.BeginTx and tx.Prepare return either no
\* wrapper with the native error, or a wrapper of the handle the native
\* call returned with a nil error; never both, never neither.
C4_WrapperOrError ==
    last.op \in WrapperMakers \cup {"Open"} =>
        /\ Len(last.nats) = 1
        /\ \/ /\ last.nats[1].err # Nil
              /\ last.ret = Ret(NilVal, last.nats[1].err)
           \/ /\ last.nats[1].err = Nil
              /\ last.ret.err = Nil
              /\ last.ret.val # NilVal
              /\ last.ret.val.h = last.nats[1].val.h
              /\ last.ret.val.t \in {"db", "stmt", "tx"}

C4_Witness ==
    /\ last.op = "db.BeginTx"
    /\ last.nats[1].err = "Canceled"
    /\ last.ret = Ret(NilVal, "Canceled")

\* the methods that take a context, as the claim lists them
CtxOps ==
    {"db.Ping", "db.Prepare", "db.BeginTx", "db.Exec", "db.Query",
     "tx.Prepare", "tx.Exec", "tx.Query", "stmt.Exec", "stmt.Query"}

\* C5 as stated: a method given an already canceled context hands that
\* context to the native call and returns a cancellation error.
C5_AsStated ==
    (last.op \in CtxOps /\ last.pre.canceled) =>
        /\ Len(last.calls) = 1
        /\ last.calls[1].ctx = last.ctx
        /\ last.ret.err = "Canceled"

\* C5 amended: a method given an already canceled context hands that
\* context to the one native call it makes and returns a cancellation
\* error, except on a Stmt wrapper whose native statement is already
\* closed, where it returns the native statement-closed error; it never
\* succeeds.
C5_CanceledContext ==
    (last.op \in CtxOps /\ last.pre.canceled) =>
        /\ Len(last.calls) = 1
        /\ last.calls[1].ctx = last.ctx
        /\ last.ret.err =
               IF last.op \in StmtUses /\ last.pre.closed
               THEN "ErrStmtClosed" ELSE "Canceled"

C5_Witness ==
    /\ last.op = "stmt.Query"
    /\ last.pre.canceled
    /\ ~last.pre.closed
    /\ last.calls[1].ctx = "c1"
    /\ last.ret.err = "Canceled"

\* C6: every Close of a Stmt or Conn wrapper, a second one included,
\* makes one native Close and returns what it returned: a second Close of
\* a statement is the native no-op, of a connection the native error.
C6_CloseForwarded ==
    last.op \in {"stmt.Close", "conn.Close"} =>
        /\ Len(last.calls) = 1
        /\ Len(last.nats) = 1
        /\ last.calls[1].op = "Close"
        /\ last.calls[1].h = wrappers[last.w].h
        /\ last.ret = last.nats[1]
        /\ last.pre.closed =>
               last.ret.err = IF last.op = "stmt.Close" THEN Nil ELSE "ErrConnDone"

C6_Witness ==
    /\ last.op = "stmt.Close"
    /\ last.pre.closed
    /\ last.ret.err = Nil

\* C7: OpenDB returns, for every connector, a db wrapper of the handle
\* built from it and a nil error.
C7_OpenDBInfallible ==
    last.op = "OpenDB" =>
        /\ last.ret.err = Nil
        /\ Len(last.nats) = 1
        /\ last.ret.val = db(last.nats[1].val.h)
        /\ last.ret.val.h \in 1..Len(heap)
        /\ heap[last.ret.val.h].kind = "DB"

C7_Witness ==
    /\ last.op = "OpenDB"
    /\ last.query = "nilConnector"
    /\ last.ret.err = Nil
    /\ last.ret.val.t = "db"

\* the native kind a wrapper type embeds
Embeds(t) ==
    CASE t = "db" -> "DB" [] t = "stmt" -> "Stmt" [] t = "tx" -> "Tx"
      [] t = "conn" -> "Conn" [] OTHER -> "none"

\* C8: every wrapper owns one native handle of its kind, and no two
\* wrappers own the same handle.
C8_ExclusiveOwnership ==
    /\ \A i \in 1..Len(wrappers) :
           /\ wrappers[i].h \in 1..Len(heap)
           /\ heap[wrappers[i].h].kind = Embeds(wrappers[i].t)
    /\ \A i, j \in 1..Len(wrappers) :
           i # j => wrappers[i].h # wrappers[j].h

C8_Witness ==
    /\ last.op = "tx.Prepare"
    /\ last.ret.err = Nil
    /\ Len(wrappers) = 3
    /\ Cardinality({wrappers[i].h : i \in 1..Len(wrappers)}) = 3

QueryRowOps == {"db.QueryRow", "stmt.QueryRow", "tx.QueryRow"}

\* C9: QueryRow always returns the native Row and no error of its own;
\* a failed query (canceled context, finished transaction, closed
\* statement, driver error) shows only as the error of the Row's Scan.
C9_QueryRowDefers ==
    last.op \in QueryRowOps =>
        /\ Len(last.nats) = 1
        /\ last.ret.err = Nil
        /\ last.ret.val.t = "Row"
        /\ last.ret.val = last.nats[1].val
        /\ (last.pre.canceled \/ last.pre.closed) => Scan(last.ret.val) # Nil

C9_Witness ==
    /\ last.op = "tx.QueryRow"
    /\ last.pre.fin
    /\ ~last.pre.canceled
    /\ last.ret.err = Nil
    /\ Scan(last.ret.val) = "ErrTxDone"

\* C10: an invocation makes exactly one native call: the corresponding
\* operation, on the handle the wrapper owns (before and after), with the
\* context, query and arguments it was given.
C10_ExactlyOneCall ==
    last.op \in WrapperOps =>
        last.calls = <<Call(Corresponding(last.op), wrappers[last.w].h,
                            last.ctx, last.query, last.args)>>

C10_Witness ==
    /\ last.op = "db.Exec"
    /\ last.ret.err = "ErrDriver"
    /\ last.calls = <<Call("ExecContext", wrappers[last.w].h, "bg", "UPDATE t", <<5>>)>>

====
